---- MODULE Spec2Model ----
(***************************************************************************)
(* Speech-duration estimation and caption timing of the YouTube Shorts     *)
(* automation (src/tts_generator.py, src/app.py).                          *)
(*                                                                         *)
(* Text is a sequence of Unicode code points.  Time is an integer number   *)
(* of ticks, TicksPerSec ticks to the second.  The tick is chosen so that  *)
(* every value the two duration estimators compute (n / 6.5, the 0.15 and  *)
(* 0.1 weights, the 0.95 and 0.85 factors, the pauses) is a whole number   *)
(* of ticks: the estimators are computed exactly.  The rescaler's          *)
(* t * (actual / estimated) is computed as floor(t * actual / estimated).  *)
(***************************************************************************)
EXTENDS Integers, Sequences, FiniteSets

\* ------------------------------------------------------------------ time

TicksPerSec == 520 * 1000

\* a duration given in hundredths of a second, in ticks
Centi(h) == h * (TicksPerSec \div 100)

\* a duration given in whole milliseconds, in ticks
Milli(ms) == ms * (TicksPerSec \div 1000)

Min(a, b) == IF a <= b THEN a ELSE b

Max(a, b) == IF a >= b THEN a ELSE b

Abs(a) == IF a >= 0 THEN a ELSE 0 - a

\* floor(t * num / den) for small num and den, without forming t * num
ScaleBy(t, num, den) == (t \div den) * num + ((t % den) * num) \div den

\* <<floor(t * a / e), (t * a) % e>> for t, a >= 0 and e > 0, by binary
\* expansion of a, so that no intermediate value exceeds 2 * e + t
RECURSIVE MulDivQR(_, _, _)
MulDivQR(t, a, e) ==
  IF a = 0 THEN <<0, 0>>
  ELSE LET h  == MulDivQR(t, a \div 2, e)
           q2 == 2 * h[1] + (2 * h[2]) \div e
           r2 == (2 * h[2]) % e
       IN IF a % 2 = 0 THEN <<q2, r2>>
          ELSE <<q2 + (t \div e) + (r2 + (t % e)) \div e, (r2 + (t % e)) % e>>

MulDiv(t, a, e) == MulDivQR(t, a, e)[1]

\* ------------------------------------------------------------ characters

SP == 32
NL == 10
EXCL == 33
DQUOTE == 34
SQUOTE == 39
COMMA == 44
PERIOD == 46
COLON == 58
SEMI == 59
QMARK == 63
HangulFirst == 44032
HangulLast == 55203

\* the characters str.strip(), str.split() and the regex class \s remove
Whitespace == {9, 10, 11, 12, 13, 28, 29, 30, 31, SP}

IsSpace(c) == c \in Whitespace

SentenceEnd == {PERIOD, EXCL, QMARK}

PrimaryDelimiters == {COMMA, SEMI, COLON, DQUOTE, SQUOTE}

IsHangul(c) == HangulFirst <= c /\ c <= HangulLast

\* str.isdigit() on the ASCII digits
IsDigit(c) == 48 <= c /\ c <= 57

\* 'a' <= char.lower() <= 'z'
IsEnglish(c) == (97 <= c /\ c <= 122) \/ (65 <= c /\ c <= 90)

\* --------------------------------------------------------------- strings

AllSpace(s) == \A i \in 1..Len(s) : IsSpace(s[i])

\* str.strip()
Strip(s) ==
  IF AllSpace(s) THEN <<>>
  ELSE LET a == CHOOSE i \in 1..Len(s) :
                  ~IsSpace(s[i]) /\ \A j \in 1..(i - 1) : IsSpace(s[j])
           b == CHOOSE i \in 1..Len(s) :
                  ~IsSpace(s[i]) /\ \A j \in (i + 1)..Len(s) : IsSpace(s[j])
       IN SubSeq(s, a, b)

\* str.count(c)
Count(s, c) == Cardinality({i \in 1..Len(s) : s[i] = c})

CountIn(s, S) == Cardinality({i \in 1..Len(s) : s[i] \in S})

\* str.replace(" ", "")
RemoveSpaces(s) == SelectSeq(s, LAMBDA c : c # SP)

\* the text with every whitespace character removed
Squeeze(s) == SelectSeq(s, LAMBDA c : ~IsSpace(c))

\* the first index >= i of s that holds no whitespace, Len(s) + 1 if none
RECURSIVE SkipSpace(_, _)
SkipSpace(s, i) ==
  IF i > Len(s) THEN i
  ELSE IF IsSpace(s[i]) THEN SkipSpace(s, i + 1) ELSE i

\* the first index >= i of s that holds whitespace, Len(s) + 1 if none
RECURSIVE SkipWord(_, _)
SkipWord(s, i) ==
  IF i > Len(s) THEN i
  ELSE IF IsSpace(s[i]) THEN i ELSE SkipWord(s, i + 1)

\* str.split(): the maximal runs of non-whitespace, in order
RECURSIVE WordsFrom(_, _)
WordsFrom(s, i) ==
  LET a == SkipSpace(s, i)
  IN IF a > Len(s) THEN <<>>
     ELSE LET b == SkipWord(s, a)
          IN <<SubSeq(s, a, b - 1)>> \o WordsFrom(s, b)

Words(s) == WordsFrom(s, 1)

\* " ".join(parts)
RECURSIVE JoinSpace(_)
JoinSpace(parts) ==
  IF parts = <<>> THEN <<>>
  ELSE IF Len(parts) = 1 THEN parts[1]
  ELSE parts[1] \o <<SP>> \o JoinSpace(Tail(parts))

\* the concatenation of the parts
RECURSIVE Concat(_)
Concat(parts) ==
  IF parts = <<>> THEN <<>> ELSE parts[1] \o Concat(Tail(parts))

\* [x for x in parts if x.strip()]
NonBlank(parts) == SelectSeq(parts, LAMBDA p : ~AllSpace(p))

\* [x.strip() for x in parts]
StripAll(parts) == [i \in 1..Len(parts) |-> Strip(parts[i])]

EndsWith(w, suffix) ==
  /\ Len(w) >= Len(suffix)
  /\ SubSeq(w, Len(w) - Len(suffix) + 1, Len(w)) = suffix

\* ---------------------------------------------------- duration estimator

\* the complexity _analyze_korean_char gives one Hangul syllable, in tenths
AnalyzeKoreanChar(c) ==
  IF ~IsHangul(c) THEN 0
  ELSE LET char_code == c - HangulFirst
           initial   == char_code \div (21 * 28)
           medial    == (char_code % (21 * 28)) \div 28
           final     == char_code % 28
           complex_initials == {1, 4, 7, 8, 9, 10, 11, 12, 13, 14, 15, 16, 17}
           complex_medials  == {2, 3, 6, 7, 10, 11, 12, 13, 14, 15, 16, 17, 18, 19}
           complex_finals   == {3, 5, 6, 9, 10, 11, 12, 13, 14, 15, 16, 17, 18, 19, 20}
       IN (IF initial \in complex_initials THEN 5 ELSE 0)
          + (IF medial \in complex_medials THEN 3 ELSE 0)
          + (IF final > 0
               THEN (IF final \in complex_finals THEN 7 ELSE 3)
               ELSE 0)

\* complex_char_count of _analyze_syllables, in tenths
RECURSIVE ComplexCharCount(_)
ComplexCharCount(s) ==
  IF s = <<>> THEN 0
  ELSE (IF IsHangul(s[1]) THEN AnalyzeKoreanChar(s[1]) ELSE 0)
       + ComplexCharCount(Tail(s))

\* complex_char_count of app.estimate_speech_duration, in tenths: 0.3 for
\* every Hangul syllable with a final consonant
RECURSIVE AppComplexCharCount(_)
AppComplexCharCount(s) ==
  IF s = <<>> THEN 0
  ELSE (IF IsHangul(s[1]) /\ (s[1] - HangulFirst) % 28 > 0 THEN 3 ELSE 0)
       + AppComplexCharCount(Tail(s))

\* pause_time: 0.1 s per , ; :  and 0.15 s per . ! ?
PauseTime(text) ==
  Count(text, COMMA) * Centi(10) + Count(text, PERIOD) * Centi(15)
  + Count(text, EXCL) * Centi(15) + Count(text, QMARK) * Centi(15)
  + Count(text, SEMI) * Centi(10) + Count(text, COLON) * Centi(10)

\* base_duration = syllable_count / 6.5
BaseDuration(syllable_count) == (syllable_count * 2 * TicksPerSec) \div 13

\* max(1, syllable_count), the denominator of the three ratios
SyllableDenominator(syllable_count) == Max(1, syllable_count)

\* max(1, len(text)), the denominator of the space ratio
LengthDenominator(text) == Max(1, Len(text))

\* base * complexity_factor + pause, plus the digit and the Latin surcharge;
\* complex10 is complex_char_count in tenths
WeightedDuration(text, syllable_count, complex10) ==
  LET tws  == RemoveSpaces(text)
      base == BaseDuration(syllable_count)
      d    == SyllableDenominator(syllable_count)
      numbers       == Cardinality({i \in 1..Len(tws) : IsDigit(tws[i])})
      english_chars == Cardinality({i \in 1..Len(tws) : IsEnglish(tws[i])})
  IN base + ((base \div 1000) * 15 * complex10) \div d
     + PauseTime(text)
     + ((base \div 100) * 15 * numbers) \div d
     + ((base \div 10) * english_chars) \div d

\* space_factor = min(0.95, 0.98 - spaces / max(1, len(text)) * 0.02), as
\* <<numerator, denominator>>
SpaceFactor(text) ==
  LET spaces == Count(text, SP)
      l      == LengthDenominator(text)
  IN <<Min(95 * l, 98 * l - 2 * spaces), 100 * l>>

ApplySpaceFactor(text, duration) ==
  IF Count(text, SP) > 0
    THEN ScaleBy(duration, SpaceFactor(text)[1], SpaceFactor(text)[2])
    ELSE duration

\* the stepwise speed-up of long text: if > 10 / elif > 20 / elif > 30
ApplySpeedUp(syllable_count, duration) ==
  IF syllable_count > 10 THEN ScaleBy(duration, 85, 100)
  ELSE IF syllable_count > 20 THEN ScaleBy(duration, 80, 100)
  ELSE IF syllable_count > 30 THEN ScaleBy(duration, 75, 100)
  ELSE duration

\* as ApplyCeiling, without the 0.1 s a character over 15 adds
ApplyCeilingFlat(syllable_count, duration) ==
  IF duration > Centi(300) /\ syllable_count > 15
    THEN Min(duration, Centi(300))
    ELSE duration

\* as ApplyCeiling, with the ceiling left out
NoCeiling(syllable_count, duration) == duration

\* the ceiling for long text: min(duration, 3.0 + (n - 15) * 0.1)
ApplyCeiling(syllable_count, duration) ==
  IF duration > Centi(300) /\ syllable_count > 15
    THEN Min(duration, Centi(300) + (syllable_count - 15) * Centi(10))
    ELSE duration

\* as MinimumDuration, without the floor
NoMinimumDuration(duration) == duration

\* max(0.7, duration)
MinimumDuration(duration) == Max(Centi(70), duration)

\* as EmptyTextDuration, with the 1.0 s the source had before
EmptyTextDurationBefore == Centi(100)

\* what _analyze_syllables returns for empty or whitespace-only text
EmptyTextDuration == Centi(80)

\* whether one of the divisions of the estimator divides by zero, for text
\* that is past the empty-text test
DivisionRaises(text) ==
  \/ SyllableDenominator(Len(RemoveSpaces(text))) = 0
  \/ Count(text, SP) > 0 /\ LengthDenominator(text) = 0

\* whether _analyze_syllables raises
AnalyzeSyllablesRaises(text) ==
  ~(text = <<>> \/ AllSpace(text)) /\ DivisionRaises(text)

\* TTSGenerator._analyze_syllables
AnalyzeSyllables(text) ==
  IF text = <<>> \/ AllSpace(text) THEN EmptyTextDuration
  ELSE LET tws == RemoveSpaces(text)
           n   == Len(tws)
           d1  == WeightedDuration(text, n, ComplexCharCount(tws))
           d2  == ApplySpaceFactor(text, d1)
           d3  == ApplySpeedUp(n, d2)
           d4  == ApplyCeiling(n, d3)
       IN MinimumDuration(d4)

\* one sentence's share of app.estimate_speech_duration (no ceiling)
AppSentenceDuration(sentence) ==
  LET tws == RemoveSpaces(sentence)
      n   == Len(tws)
      d1  == WeightedDuration(sentence, n, AppComplexCharCount(tws))
      d2  == ApplySpaceFactor(sentence, d1)
      d3  == ApplySpeedUp(n, d2)
  IN MinimumDuration(d3)

\* ------------------------------------------------------------ segmenters

\* re.split(r'(?<=[.!?])\s+', s) from index i on, the open piece starting
\* at index a
RECURSIVE ReSplitSentences(_, _, _)
ReSplitSentences(s, i, a) ==
  IF i > Len(s) THEN <<SubSeq(s, a, Len(s))>>
  ELSE IF IsSpace(s[i]) /\ i > 1 /\ s[i - 1] \in SentenceEnd
    THEN <<SubSeq(s, a, i - 1)>>
         \o ReSplitSentences(s, SkipSpace(s, i), SkipSpace(s, i))
    ELSE ReSplitSentences(s, i + 1, a)

\* TTSGenerator._split_into_sentences
SplitIntoSentences(text) == StripAll(NonBlank(ReSplitSentences(text, 1, 1)))

\* app.estimate_speech_duration
RECURSIVE SumAppDurations(_)
SumAppDurations(sentences) ==
  IF sentences = <<>> THEN 0
  ELSE AppSentenceDuration(sentences[1]) + SumAppDurations(Tail(sentences))

EstimateSpeechDuration(text) ==
  IF text = <<>> \/ AllSpace(text) THEN 0
  ELSE SumAppDurations(StripAll(NonBlank(ReSplitSentences(text, 1, 1))))

\* whether app.estimate_speech_duration raises
EstimateSpeechDurationRaises(text) ==
  /\ ~(text = <<>> \/ AllSpace(text))
  /\ LET sentences == SplitIntoSentences(text)
     IN \E i \in 1..Len(sentences) : DivisionRaises(sentences[i])

\* the word-final particles and endings of _split_by_korean_particles
SubjectParticles == {<<51060>>, <<44032>>}

TopicParticles == {<<51008>>, <<45716>>}

ObjectParticles == {<<51012>>, <<47484>>}

LocationParticles ==
  {<<50640, 49436>>, <<50640>>, <<44760>>, <<54620, 53580>>, <<50640, 44172>>}

ConnectiveEndings ==
  {<<44256>>, <<47728>>, <<49436>>, <<46104>>, <<51088>>, <<47732>>,
   <<45768, 44620>>, <<51648, 47564>>}

QuotePatterns ==
  {<<46972, 44256>>, <<54616, 44256>>, <<54616, 47728>>, <<54616, 51088>>,
   <<54616, 47732>>}

\* re.search(r'(..|..)$', word)
EndsWithAny(word, suffixes) == \E x \in suffixes : EndsWith(word, x)

\* should_split for the i-th word (counted from 0, as enumerate does)
ShouldSplit(words, i, word_count) ==
  LET word    == words[i + 1]
      notLast == i < Len(words) - 1
  IN IF word_count >= 3 THEN TRUE
     ELSE IF word_count >= 2 /\ notLast
       THEN EndsWithAny(word, SubjectParticles)
            \/ EndsWithAny(word, TopicParticles)
            \/ EndsWithAny(word, ObjectParticles)
            \/ EndsWithAny(word, LocationParticles)
     ELSE IF word_count >= 2 /\ notLast
       THEN EndsWithAny(word, ConnectiveEndings)
     ELSE IF word_count >= 2 /\ notLast
       THEN EndsWithAny(word, QuotePatterns)
     ELSE FALSE

\* the word loop of _split_by_korean_particles from word i (counted from 0)
RECURSIVE ParticleLoop(_, _, _, _, _)
ParticleLoop(words, i, current_fragment, word_count, fragments) ==
  IF i >= Len(words)
    THEN IF current_fragment # <<>>
           THEN Append(fragments, current_fragment)
           ELSE fragments
    ELSE LET cur == IF current_fragment # <<>>
                      THEN current_fragment \o <<SP>> \o words[i + 1]
                      ELSE words[i + 1]
             wc  == word_count + 1
         IN IF ShouldSplit(words, i, wc)
              THEN ParticleLoop(words, i + 1, <<>>, 0, Append(fragments, cur))
              ELSE ParticleLoop(words, i + 1, cur, wc, fragments)

\* TTSGenerator._split_by_korean_particles
SplitByKoreanParticles(text) ==
  LET words == Words(text)
  IN IF Len(words) <= 3 THEN <<text>>
     ELSE LET fragments == ParticleLoop(words, 0, <<>>, 0, <<>>)
          IN IF fragments = <<>> THEN <<text>> ELSE fragments

\* re.split(r'(?<=[,;:"\'])', s) from index i on, the open piece starting at
\* index a: an empty match after every delimiter, the end of the text too
RECURSIVE ReSplitPrimary(_, _, _)
ReSplitPrimary(s, i, a) ==
  IF i > Len(s) THEN <<SubSeq(s, a, Len(s))>>
  ELSE IF s[i] \in PrimaryDelimiters
    THEN <<SubSeq(s, a, i)>> \o ReSplitPrimary(s, i + 1, i + 1)
    ELSE ReSplitPrimary(s, i + 1, a)

\* the first loop of _split_into_clauses: temp_clauses
RECURSIVE TempClauses(_)
TempClauses(primary_splits) ==
  IF primary_splits = <<>> THEN <<>>
  ELSE LET split == Strip(primary_splits[1])
       IN (IF split = <<>> THEN <<>>
           ELSE IF Len(split) <= 20 THEN <<split>>
           ELSE SplitByKoreanParticles(split))
          \o TempClauses(Tail(primary_splits))

\* as Recombine, without the clause still open when the loop ends
RECURSIVE RecombineDropOpen(_, _, _)
RecombineDropOpen(temp_clauses, current_clause, clauses) ==
  IF temp_clauses = <<>> THEN clauses
  ELSE LET clause   == temp_clauses[1]
           combined == current_clause \o <<SP>> \o clause
       IN IF current_clause = <<>>
            THEN RecombineDropOpen(Tail(temp_clauses), clause, clauses)
          ELSE IF Len(combined) > 25
            THEN RecombineDropOpen(Tail(temp_clauses), clause,
                                   Append(clauses, current_clause))
          ELSE RecombineDropOpen(Tail(temp_clauses), combined, clauses)

\* as Recombine, with merged clauses of at most 20 characters
RECURSIVE RecombineUpTo20(_, _, _)
RecombineUpTo20(temp_clauses, current_clause, clauses) ==
  IF temp_clauses = <<>>
    THEN IF current_clause # <<>> THEN Append(clauses, current_clause)
                                  ELSE clauses
    ELSE LET clause   == temp_clauses[1]
             combined == current_clause \o <<SP>> \o clause
         IN IF current_clause = <<>>
              THEN RecombineUpTo20(Tail(temp_clauses), clause, clauses)
            ELSE IF Len(combined) > 20
              THEN RecombineUpTo20(Tail(temp_clauses), clause,
                                   Append(clauses, current_clause))
            ELSE RecombineUpTo20(Tail(temp_clauses), combined, clauses)

\* the second loop of _split_into_clauses: merge while the merged clause is
\* at most 25 characters long
RECURSIVE Recombine(_, _, _)
Recombine(temp_clauses, current_clause, clauses) ==
  IF temp_clauses = <<>>
    THEN IF current_clause # <<>> THEN Append(clauses, current_clause)
                                  ELSE clauses
    ELSE LET clause   == temp_clauses[1]
             combined == current_clause \o <<SP>> \o clause
         IN IF current_clause = <<>>
              THEN Recombine(Tail(temp_clauses), clause, clauses)
            ELSE IF Len(combined) > 25
              THEN Recombine(Tail(temp_clauses), clause,
                             Append(clauses, current_clause))
            ELSE Recombine(Tail(temp_clauses), combined, clauses)

\* TTSGenerator._split_into_clauses
SplitIntoClauses(sentence) ==
  IF Len(sentence) <= 10 THEN <<sentence>>
  ELSE LET temp    == TempClauses(ReSplitPrimary(sentence, 1, 1))
           clauses == NonBlank(Recombine(temp, <<>>, <<>>))
       IN IF clauses = <<>> THEN <<sentence>> ELSE clauses

\* ------------------------------------------------------ caption timeline

\* the caption _estimate_timestamps appends for one clause
CaptionOf(clause, current_time, duration) ==
  [text |-> clause, start_time |-> current_time,
   end_time |-> current_time + duration]

\* as AdvanceClock, with = in the place of +=
AdvanceClockAssign(current_time, duration) == duration

\* current_time += duration
AdvanceClock(current_time, duration) == current_time + duration

\* the clauses of all sentences, in order (the two nested loops)
RECURSIVE ClausesOf(_)
ClausesOf(sentences) ==
  IF sentences = <<>> THEN <<>>
  ELSE SplitIntoClauses(sentences[1]) \o ClausesOf(Tail(sentences))

RECURSIVE TimestampLoop(_, _)
TimestampLoop(clauses, current_time) ==
  IF clauses = <<>> THEN <<>>
  ELSE LET duration == AnalyzeSyllables(clauses[1])
       IN <<CaptionOf(clauses[1], current_time, duration)>>
          \o TimestampLoop(Tail(clauses), AdvanceClock(current_time, duration))

\* TTSGenerator._estimate_timestamps
EstimateTimestamps(sentences) == TimestampLoop(ClausesOf(sentences), 0)

\* as CloseEnough, with <= in the place of <
CloseEnoughInclusive(actual_duration, estimated_duration) ==
  Abs(actual_duration - estimated_duration) <= Centi(50)

\* whether _estimate_timestamps raises: it does where _analyze_syllables
\* raises on one of the clauses
EstimateTimestampsRaises(sentences) ==
  \E i \in 1..Len(sentences) :
    LET clauses == SplitIntoClauses(sentences[i])
    IN \E j \in 1..Len(clauses) : AnalyzeSyllablesRaises(clauses[j])

\* abs(actual_duration - estimated_duration) < 0.5
CloseEnough(actual_duration, estimated_duration) ==
  Abs(actual_duration - estimated_duration) < Centi(50)

\* timestamp * ratio, ratio = actual_duration / estimated_duration
ScaleTime(t, actual_duration, estimated_duration) ==
  MulDiv(t, actual_duration, estimated_duration)

\* as ScaleAll, with the start_time left as it was
ScaleEndOnly(subtitles, actual_duration, estimated_duration) ==
  [i \in 1..Len(subtitles) |->
     [text       |-> subtitles[i].text,
      start_time |-> subtitles[i].start_time,
      end_time   |-> MulDiv(subtitles[i].end_time, actual_duration,
                            estimated_duration)]]

\* as ScaleAll, with the loop stopping before the last caption
ScaleAllButLast(subtitles, actual_duration, estimated_duration) ==
  [i \in 1..Len(subtitles) |->
     IF i = Len(subtitles) THEN subtitles[i]
     ELSE [text       |-> subtitles[i].text,
           start_time |-> MulDiv(subtitles[i].start_time, actual_duration,
                                 estimated_duration),
           end_time   |-> MulDiv(subtitles[i].end_time, actual_duration,
                                 estimated_duration)]]

\* as ScaleAll, with the end_time left as it was
ScaleStartOnly(subtitles, actual_duration, estimated_duration) ==
  [i \in 1..Len(subtitles) |->
     [text       |-> subtitles[i].text,
      start_time |-> MulDiv(subtitles[i].start_time, actual_duration,
                            estimated_duration),
      end_time   |-> subtitles[i].end_time]]

\* the loop that multiplies every start_time and end_time by ratio
ScaleAll(subtitles, actual_duration, estimated_duration) ==
  [i \in 1..Len(subtitles) |->
     [text       |-> subtitles[i].text,
      start_time |-> ScaleTime(subtitles[i].start_time, actual_duration,
                               estimated_duration),
      end_time   |-> ScaleTime(subtitles[i].end_time, actual_duration,
                               estimated_duration)]]

\* as AdjustTimestamps, with the except clause returning an empty list
AdjustTimestampsEmptyOnError(subtitles, loaded, actual_duration) ==
  IF subtitles = <<>> THEN subtitles
  ELSE IF ~loaded THEN <<>>
  ELSE LET estimated_duration == subtitles[Len(subtitles)].end_time
       IN IF Abs(actual_duration - estimated_duration) < Centi(50)
            THEN subtitles
          ELSE IF estimated_duration = 0 THEN <<>>
          ELSE [i \in 1..Len(subtitles) |->
                  [text       |-> subtitles[i].text,
                   start_time |-> MulDiv(subtitles[i].start_time,
                                         actual_duration, estimated_duration),
                   end_time   |-> MulDiv(subtitles[i].end_time,
                                         actual_duration,
                                         estimated_duration)]]

\* as AdjustTimestamps, with a failed load raising after the first caption
\* has been scaled to a measured duration of 0
AdjustTimestampsLateError(subtitles, loaded, actual_duration) ==
  IF subtitles = <<>> THEN subtitles
  ELSE IF ~loaded
    THEN [i \in 1..Len(subtitles) |->
            IF i = 1 THEN [text |-> subtitles[i].text, start_time |-> 0,
                           end_time |-> 0]
            ELSE subtitles[i]]
  ELSE LET estimated_duration == subtitles[Len(subtitles)].end_time
       IN IF Abs(actual_duration - estimated_duration) < Centi(50)
            THEN subtitles
          ELSE IF estimated_duration = 0 THEN subtitles
          ELSE [i \in 1..Len(subtitles) |->
                  [text       |-> subtitles[i].text,
                   start_time |-> MulDiv(subtitles[i].start_time,
                                         actual_duration, estimated_duration),
                   end_time   |-> MulDiv(subtitles[i].end_time,
                                         actual_duration,
                                         estimated_duration)]]

\* TTSGenerator._adjust_timestamps_based_on_actual_duration: loaded is
\* whether AudioSegment.from_file succeeds, actual_duration what it measures.
\* A failed load and the division by an estimated duration of 0 both raise
\* inside the try block, before any caption is changed, and the except
\* clause returns the captions as they are.
AdjustTimestamps(subtitles, loaded, actual_duration) ==
  IF subtitles = <<>> THEN subtitles
  ELSE IF ~loaded THEN subtitles
  ELSE LET estimated_duration == subtitles[Len(subtitles)].end_time
       IN IF CloseEnough(actual_duration, estimated_duration) THEN subtitles
          ELSE IF estimated_duration = 0 THEN subtitles
          ELSE ScaleAll(subtitles, actual_duration, estimated_duration)

\* --------------------------------------------------------- script trimmer

\* TTSGenerator._estimate_total_duration
RECURSIVE SumDurations(_)
SumDurations(sentences) ==
  IF sentences = <<>> THEN 0
  ELSE AnalyzeSyllables(sentences[1]) + SumDurations(Tail(sentences))

EstimateTotalDuration(text) == SumDurations(SplitIntoSentences(text))

\* sentence_durations: the pairs (sentence, duration)
SentenceDurations(sentences) ==
  [i \in 1..Len(sentences) |->
     <<sentences[i], AnalyzeSyllables(sentences[i])>>]

\* max(x[1], 0.5), the denominator of the density
DensityDenominator(d) == Max(d, Centi(50))

\* key(x) > key(y) for key(x) = len(x[0].split()) / max(x[1], 0.5)
DenserThan(x, y) ==
  Len(Words(x[1])) * DensityDenominator(y[2])
    > Len(Words(y[1])) * DensityDenominator(x[2])

\* list.sort(key, reverse=True) is stable: x goes behind every element whose
\* key is not smaller
RECURSIVE InsertByDensity(_, _)
InsertByDensity(sorted, x) ==
  IF sorted = <<>> THEN <<x>>
  ELSE IF DenserThan(x, sorted[1]) THEN <<x>> \o sorted
  ELSE <<sorted[1]>> \o InsertByDensity(Tail(sorted), x)

RECURSIVE SortByDensity(_, _)
SortByDensity(items, sorted) ==
  IF items = <<>> THEN sorted
  ELSE SortByDensity(Tail(items), InsertByDensity(sorted, items[1]))

\* target_duration = max_duration * 0.95
TargetDuration(max_duration) == ScaleBy(max_duration, 95, 100)

\* the loop over the middle sentences: what it appends to selected_sentences
RECURSIVE SelectMiddle(_, _, _)
SelectMiddle(middle_sentences, reserved_duration, target_duration) ==
  IF middle_sentences = <<>> THEN <<>>
  ELSE LET sentence == middle_sentences[1][1]
           duration == middle_sentences[1][2]
       IN IF reserved_duration + duration <= target_duration
            THEN <<sentence>>
                 \o SelectMiddle(Tail(middle_sentences),
                                 reserved_duration + duration, target_duration)
            ELSE SelectMiddle(Tail(middle_sentences), reserved_duration,
                              target_duration)

InSeq(x, seq) == \E i \in 1..Len(seq) : seq[i] = x

\* as SelectedSentences, without the last sentence
SelectedWithoutLast(sentence_durations, target_duration) ==
  LET n      == Len(sentence_durations)
      first  == IF n > 0 THEN <<sentence_durations[1][1]>> ELSE <<>>
      firstD == IF n > 0 THEN sentence_durations[1][2] ELSE 0
      lastD  == IF n > 1 THEN sentence_durations[n][2] ELSE 0
      middle == IF n > 2 THEN SubSeq(sentence_durations, 2, n - 1) ELSE <<>>
  IN first \o SelectMiddle(SortByDensity(middle, <<>>), firstD + lastD,
                           target_duration)

\* selected_sentences: the first sentence, the middle sentences that fit, and
\* the last sentence unless its text is already there
SelectedSentences(sentence_durations, target_duration) ==
  LET n      == Len(sentence_durations)
      first  == IF n > 0 THEN <<sentence_durations[1][1]>> ELSE <<>>
      firstD == IF n > 0 THEN sentence_durations[1][2] ELSE 0
      lastD  == IF n > 1 THEN sentence_durations[n][2] ELSE 0
      middle == IF n > 2 THEN SubSeq(sentence_durations, 2, n - 1) ELSE <<>>
      kept   == first \o SelectMiddle(SortByDensity(middle, <<>>),
                                      firstD + lastD, target_duration)
  IN IF n > 1 /\ ~InSeq(sentence_durations[n][1], kept)
       THEN Append(kept, sentence_durations[n][1])
       ELSE kept

\* as FinalSentences, without the return to the order of the script
FinalInSelectionOrder(sentences, selected_sentences) == selected_sentences

\* final_sentences: every sentence whose text is among the selected, in the
\* order of the script
FinalSentences(sentences, selected_sentences) ==
  SelectSeq(sentences, LAMBDA s : InSeq(s, selected_sentences))

\* whether _estimate_total_duration raises
EstimateTotalDurationRaises(text) ==
  LET sentences == SplitIntoSentences(text)
  IN \E i \in 1..Len(sentences) : AnalyzeSyllablesRaises(sentences[i])

\* as TakesFirstSentence, without the test for an empty list
TakesFirstSentenceAlways(sentence_durations) == TRUE

\* whether sentence_durations[0] is evaluated:
\* sentence_durations[0] if sentence_durations else None
TakesFirstSentence(sentence_durations) == sentence_durations # <<>>

\* whether sentence_durations[-1] is evaluated:
\* sentence_durations[-1] if len(sentence_durations) > 1 else None
TakesLastSentence(sentence_durations) == Len(sentence_durations) > 1

\* whether trim_script_to_duration raises: in the estimate of the script, or
\* past the early return in an index into an empty list or in a density
\* with a denominator of zero
TrimScriptToDurationRaises(text, max_duration) ==
  \/ EstimateTotalDurationRaises(text)
  \/ /\ EstimateTotalDuration(text) > max_duration
     /\ LET sd == SentenceDurations(SplitIntoSentences(text))
        IN \/ TakesFirstSentence(sd) /\ sd = <<>>
           \/ TakesLastSentence(sd) /\ sd = <<>>
           \/ \E i \in 2..(Len(sd) - 1) : DensityDenominator(sd[i][2]) = 0

\* as TrimScriptToDuration, with the script compared with the 95 % target
TrimAboveTarget(text, max_duration) ==
  IF EstimateTotalDuration(text) <= TargetDuration(max_duration) THEN text
  ELSE LET sentences == SplitIntoSentences(text)
           selected  == SelectedSentences(SentenceDurations(sentences),
                                          TargetDuration(max_duration))
       IN JoinSpace(FinalSentences(sentences, selected))

\* TTSGenerator.trim_script_to_duration
TrimScriptToDuration(text, max_duration) ==
  IF EstimateTotalDuration(text) <= max_duration THEN text
  ELSE LET sentences == SplitIntoSentences(text)
           selected  == SelectedSentences(SentenceDurations(sentences),
                                          TargetDuration(max_duration))
       IN JoinSpace(FinalSentences(sentences, selected))

\* ------------------------------------------------ captions on the video

\* sum(len(s) for s in sentences)
RECURSIVE TotalChars(_)
TotalChars(sentences) ==
  IF sentences = <<>> THEN 0
  ELSE Len(sentences[1]) + TotalChars(Tail(sentences))

\* char_count * avg_duration, avg_duration = video_duration / total_chars
ProportionalDuration(char_count, total_chars, video_duration) ==
  MulDiv(video_duration, char_count, total_chars)

\* duration = max(1.5, duration); duration = min(7.0, duration)
ClampDuration(duration) == Min(Centi(700), Max(Centi(150), duration))

\* if end_time > video_duration: end_time = video_duration
CutAtVideoEnd(end_time, video_duration) ==
  IF end_time > video_duration THEN video_duration ELSE end_time

\* the sentence loop of create_subtitle_clips_from_text from sentence i on;
\* failing holds the sentences at which drawing the text raises, which ends
\* the loop with the clips made so far
RECURSIVE TextClipLoop(_, _, _, _, _)
TextClipLoop(sentences, i, current_time, video_duration, failing) ==
  IF i > Len(sentences) \/ i \in failing THEN <<>>
  ELSE LET duration == ClampDuration(
                         ProportionalDuration(Len(sentences[i]),
                                              TotalChars(sentences),
                                              video_duration))
           end_time == CutAtVideoEnd(current_time + duration, video_duration)
       IN <<[text |-> sentences[i], start_time |-> current_time,
             end_time |-> end_time]>>
          \o TextClipLoop(sentences, i + 1, end_time, video_duration, failing)

\* VideoCreator.create_subtitle_clips_from_text: the clips with the times
\* given to set_start and set_end; the sentences are split as in
\* _split_into_sentences, by the same expression and the same filter
CreateSubtitleClipsFromText(full_text, video_duration, failing) ==
  IF AllSpace(full_text) THEN <<>>
  ELSE TextClipLoop(SplitIntoSentences(full_text), 1, 0, video_duration,
                    failing)

\* end_time <= start_time or start_time < 0 or end_time > video_duration
InvalidTimes(subtitle, video_duration) ==
  \/ subtitle.end_time <= subtitle.start_time
  \/ subtitle.start_time < 0
  \/ subtitle.end_time > video_duration

\* VideoCreator.create_subtitle_clips: a caption without text, with invalid
\* times or whose text cannot be drawn is skipped
CreateSubtitleClips(subtitles, video_duration, failing) ==
  LET kept == {i \in 1..Len(subtitles) :
                 /\ ~AllSpace(subtitles[i].text)
                 /\ ~InvalidTimes(subtitles[i], video_duration)
                 /\ i \notin failing}
      place(k) == CHOOSE i \in kept : Cardinality({j \in kept : j < i}) = k - 1
  IN [k \in 1..Cardinality(kept) |-> subtitles[place(k)]]

\* -------------------------------------------- captions from speech-to-text

\* word.endswith(('.', '?', '!', '。', '？', '！'))
EndsSentence(word) ==
  word # <<>> /\ word[Len(word)] \in {PERIOD, QMARK, EXCL, 12290, 65311, 65281}

\* the words of all results in order, each with its index in its result
RECURSIVE IndexedWords(_)
IndexedWords(results) ==
  IF results = <<>> THEN <<>>
  ELSE [i \in 1..Len(results[1]) |->
          [index |-> i - 1, info |-> results[1][i]]]
       \o IndexedWords(Tail(results))

\* {"text": "", "start_time": 0, "end_time": 0}
EmptySentence == [text |-> <<>>, start_time |-> 0, end_time |-> 0]

\* the word loop of _get_stt_based_timestamps: a caption is opened by the
\* first word of a result if none is open, every other word is appended
\* behind a space, and a word that ends a sentence closes the caption
RECURSIVE GroupWords(_, _, _)
GroupWords(words, current_sentence, subtitles) ==
  IF words = <<>>
    THEN IF current_sentence.text # <<>>
           THEN Append(subtitles, current_sentence)
           ELSE subtitles
    ELSE LET info == words[1].info
             next == IF words[1].index = 0 /\ current_sentence.text = <<>>
                       THEN [text       |-> info.word,
                             start_time |-> info.start_time,
                             end_time   |-> info.end_time]
                       ELSE [text       |-> current_sentence.text \o <<SP>>
                                              \o info.word,
                             start_time |-> current_sentence.start_time,
                             end_time   |-> info.end_time]
         IN IF EndsSentence(info.word)
              THEN GroupWords(Tail(words), EmptySentence,
                              Append(subtitles, next))
              ELSE GroupWords(Tail(words), next, subtitles)

\* TTSGenerator._align_stt_with_original: the texts of the first captions
\* are replaced by the sentences of the script unless the two counts differ
\* by more than half the number of sentences
AlignSttWithOriginal(subtitles, original_text) ==
  LET original_sentences == SplitIntoSentences(original_text)
      n                  == Len(original_sentences)
  IN IF 2 * Abs(Len(subtitles) - n) > n THEN subtitles
     ELSE [i \in 1..Len(subtitles) |->
             IF i <= n
               THEN [text       |-> original_sentences[i],
                     start_time |-> subtitles[i].start_time,
                     end_time   |-> subtitles[i].end_time]
               ELSE subtitles[i]]

\* TTSGenerator._get_stt_based_timestamps: failed is whether preparing or
\* sending the audio raised, results what the recognition gave, each result
\* the words of its first alternative; every exception ends in []
GetSttBasedTimestamps(failed, results, original_text) ==
  IF failed THEN <<>>
  ELSE IF results = <<>> THEN <<>>
  ELSE LET subtitles == GroupWords(IndexedWords(results), EmptySentence,
                                   <<>>)
       IN IF subtitles = <<>> THEN <<>>
          ELSE AlignSttWithOriginal(subtitles, original_text)

\* as SttSucceeded, with any result taken for captions
SttSucceededAlways(subtitles) == TRUE

\* if subtitles and len(subtitles) > 0
SttSucceeded(subtitles) == subtitles # <<>>

\* ------------------------------------------------------------------ state

VARIABLES
  pc,               \* the call in progress or finished
  text,             \* the text or script handed in
  max_duration,     \* the trimmer's budget
  duration,         \* what the estimator called last returned
  parts,            \* what the segmenter called last returned
  trimmed,          \* what trim_script_to_duration returned
  subtitles,        \* the caption list
  previous,         \* the caption list before the last rescale call
  loaded,           \* whether the last rescale call could load the audio
  actual_duration,  \* what the last rescale call measured
  rescales,         \* the number of rescale calls so far
  tts_file,         \* what generate_tts returned: none, a path, a file
  use_stt_for_subtitles,  \* whether captions are taken from speech-to-text
  stt,              \* how the speech-to-text step ended
  video_duration,   \* the length of the video the captions are laid over
  clips             \* the caption clips made for the video

vars == <<pc, text, max_duration, duration, parts, trimmed, subtitles,
          previous, loaded, actual_duration, rescales, tts_file,
          use_stt_for_subtitles, stt, video_duration, clips>>

\* --------------------------------------------------------------- inputs

MaxTextLen == 3
MaxTokens == 3
MaxSentences == 5
MaxSeconds == 5
MaxCaptionSentences == 2
MaxAudioSteps == 6
AudioStepMs == 400
MaxRescales == 2
MaxRun == 16
MaxWords == 5
MaxCoarseSentences == 3
MaxVideoSeconds == 9
MaxRenderFailures == 1
SttStepMs == 300

\* all sequences over S of length at most n
SeqsUpTo(S, n) == UNION {[1..k -> S] : k \in 0..n}

\* Hangul without and with a final consonant, a Latin letter, a digit,
\* punctuation, a space and a line break
EstimateAlphabet == {44032, 44050, 97, 49, PERIOD, COMMA, SP, NL}

\* the character c, k times
Repeat(c, k) == [i \in 1..k |-> c]

\* Hangul with a final consonant, a Latin letter, a full stop and a space
RunAlphabet == {44050, 97, PERIOD, SP}

\* a run of one character and then a run of another: text long enough for
\* the speed-up and the ceiling
RunTexts ==
  {Repeat(a, i) \o Repeat(b, j) : a, b \in RunAlphabet, i, j \in 0..MaxRun}

EstimateTexts == SeqsUpTo(EstimateAlphabet, MaxTextLen) \cup RunTexts

\* the characters appended to a text that has been estimated
AppendableCharacters == EstimateAlphabet \ Whitespace

\* nothing; one syllable; three Korean words, the first ending in the topic
\* particle and the second in the locative particle; three words of letters
\* and digits
Phrases ==
  {<<>>, <<44032>>,
   <<45208, 45716, SP, 54617, 44368, 50640, 49436, SP, 44036, 45796>>,
   <<97, 98, 99, SP, 100, 101, 49, 50, SP, 102, 103, 104>>}

Separators == {<<SP>>, <<COMMA, SP>>, <<PERIOD, NL>>}

Tokens == {p \o s : p \in Phrases, s \in Separators}

SegmentTexts == {Concat(ts) : ts \in SeqsUpTo(Tokens, MaxTokens)}

\* a word ending in the topic particle, one in a connective ending, one in a
\* quotative ending, one in neither
ParticleWords ==
  {<<45208, 45716>>, <<47673, 44256>>, <<47568, 54616, 44256>>,
   <<44036, 45796>>}

\* the texts of 4 to MaxWords of these words, one space apart
ParticleTexts ==
  {JoinSpace(ws) :
     ws \in SeqsUpTo(ParticleWords, MaxWords) \ SeqsUpTo(ParticleWords, 3)}

\* a one-syllable sentence (the 0.7 s floor), a sentence of two words, a
\* sentence of three words, a sentence of one long word
ScriptSentences ==
  {<<44032, PERIOD>>,
   <<50724, 45720, SP, 51339, 45796, PERIOD>>,
   <<45208, 45716, SP, 54617, 44368, 50640, SP, 44036, 45796, PERIOD>>,
   <<97, 98, 99, 100, 101, 102, 103, 104, 49, 50, 51, 52, 53, PERIOD>>}

\* two sentences two spaces apart, with a line break at the end
LooseScript ==
  <<44032, PERIOD, SP, SP, 50724, 45720, SP, 51339, 45796, PERIOD, NL>>

\* the scripts of at most MaxSentences sentences, a script of one space and
\* the script with loose whitespace
TrimScripts ==
  {JoinSpace(ss) : ss \in SeqsUpTo(ScriptSentences, MaxSentences)}
    \cup {<<SP>>, LooseScript}

MaxDurations == {Centi(100) * m : m \in 0..MaxSeconds}

CaptionScripts ==
  {JoinSpace(ss) : ss \in SeqsUpTo(ScriptSentences, MaxCaptionSentences)}

\* len(audio) / 1000.0: a whole number of milliseconds
AudioDurations == {Milli(AudioStepMs * k) : k \in 0..MaxAudioSteps}

\* the captions at which drawing the text can raise in one call
RenderFailures(n) ==
  {S \in SUBSET (1..n) : Cardinality(S) <= MaxRenderFailures}

\* ----------------------------------------------------------------- start

Idle ==
  /\ max_duration = 0
  /\ duration = 0
  /\ parts = <<>>
  /\ trimmed = <<>>
  /\ subtitles = <<>>
  /\ previous = <<>>
  /\ loaded = FALSE
  /\ actual_duration = 0
  /\ rescales = 0
  /\ tts_file = "none"
  /\ stt = "off"
  /\ video_duration = 0
  /\ clips = <<>>

\* ------------------------------------------------- the estimators, alone

InitEstimate ==
  /\ pc = "text"
  /\ text \in EstimateTexts
  /\ use_stt_for_subtitles = FALSE
  /\ Idle

CallAnalyzeSyllables ==
  /\ pc = "text"
  /\ IF AnalyzeSyllablesRaises(text)
       THEN pc' = "raised" /\ duration' = duration
       ELSE pc' = "analyze_syllables" /\ duration' = AnalyzeSyllables(text)
  /\ UNCHANGED <<text, max_duration, parts, trimmed, subtitles, previous,
                 loaded, actual_duration, rescales,
                 tts_file, use_stt_for_subtitles, stt, video_duration,
                 clips>>

CallEstimateSpeechDuration ==
  /\ pc = "text"
  /\ IF EstimateSpeechDurationRaises(text)
       THEN pc' = "raised" /\ duration' = duration
       ELSE /\ pc' = "estimate_speech_duration"
            /\ duration' = EstimateSpeechDuration(text)
  /\ UNCHANGED <<text, max_duration, parts, trimmed, subtitles, previous,
                 loaded, actual_duration, rescales,
                 tts_file, use_stt_for_subtitles, stt, video_duration,
                 clips>>

\* the estimator called before is called again on the text with one more
\* character
AppendCharacter ==
  /\ pc \in {"analyze_syllables", "estimate_speech_duration"}
  /\ \E c \in AppendableCharacters : text' = Append(text, c)
  /\ IF pc = "analyze_syllables"
       THEN /\ pc' = "analyze_syllables_appended"
            /\ duration' = AnalyzeSyllables(text')
       ELSE /\ pc' = "estimate_speech_duration_appended"
            /\ duration' = EstimateSpeechDuration(text')
  /\ UNCHANGED <<max_duration, parts, trimmed, subtitles, previous, loaded,
                 actual_duration, rescales,
                 tts_file, use_stt_for_subtitles, stt, video_duration,
                 clips>>

\* _analyze_syllables is called again on the text written twice
DoubleText ==
  /\ pc = "analyze_syllables"
  /\ pc' = "analyze_syllables_doubled"
  /\ text' = text \o text
  /\ duration' = AnalyzeSyllables(text')
  /\ UNCHANGED <<max_duration, parts, trimmed, subtitles, previous, loaded,
                 actual_duration, rescales,
                 tts_file, use_stt_for_subtitles, stt, video_duration,
                 clips>>

NextEstimate ==
  \/ CallAnalyzeSyllables
  \/ CallEstimateSpeechDuration
  \/ AppendCharacter
  \/ DoubleText

SpecEstimate == InitEstimate /\ [][NextEstimate]_vars

\* ------------------------------- the segmenters and the timeline builder

InitSegment ==
  /\ pc = "text"
  /\ text \in SegmentTexts \cup ParticleTexts
  /\ use_stt_for_subtitles = FALSE
  /\ Idle

CallSplitIntoSentences ==
  /\ pc = "text"
  /\ pc' = "split_into_sentences"
  /\ parts' = SplitIntoSentences(text)
  /\ UNCHANGED <<text, max_duration, duration, trimmed, subtitles, previous,
                 loaded, actual_duration, rescales,
                 tts_file, use_stt_for_subtitles, stt, video_duration,
                 clips>>

CallSplitIntoClauses ==
  /\ pc = "text"
  /\ pc' = "split_into_clauses"
  /\ parts' = SplitIntoClauses(text)
  /\ UNCHANGED <<text, max_duration, duration, trimmed, subtitles, previous,
                 loaded, actual_duration, rescales,
                 tts_file, use_stt_for_subtitles, stt, video_duration,
                 clips>>

CallSplitByKoreanParticles ==
  /\ pc = "text"
  /\ pc' = "split_by_korean_particles"
  /\ parts' = SplitByKoreanParticles(text)
  /\ UNCHANGED <<text, max_duration, duration, trimmed, subtitles, previous,
                 loaded, actual_duration, rescales,
                 tts_file, use_stt_for_subtitles, stt, video_duration,
                 clips>>

\* the timeline builder: _estimate_timestamps over _split_into_sentences
CallEstimateTimestamps ==
  /\ pc = "text"
  /\ parts' = SplitIntoSentences(text)
  /\ IF EstimateTimestampsRaises(SplitIntoSentences(text))
       THEN pc' = "raised" /\ subtitles' = subtitles
       ELSE /\ pc' = "estimate_timestamps"
            /\ subtitles' = EstimateTimestamps(SplitIntoSentences(text))
  /\ UNCHANGED <<text, max_duration, duration, trimmed, previous, loaded,
                 actual_duration, rescales,
                 tts_file, use_stt_for_subtitles, stt, video_duration,
                 clips>>

NextSegment ==
  \/ CallSplitIntoSentences
  \/ CallSplitIntoClauses
  \/ CallSplitByKoreanParticles
  \/ CallEstimateTimestamps

SpecSegment == InitSegment /\ [][NextSegment]_vars

\* ------------------------------------------------------------ the trimmer

InitTrim ==
  /\ pc = "text"
  /\ text \in TrimScripts
  /\ max_duration \in MaxDurations
  /\ duration = 0
  /\ parts = <<>>
  /\ trimmed = <<>>
  /\ subtitles = <<>>
  /\ previous = <<>>
  /\ loaded = FALSE
  /\ actual_duration = 0
  /\ rescales = 0
  /\ tts_file = "none"
  /\ use_stt_for_subtitles = FALSE
  /\ stt = "off"
  /\ video_duration = 0
  /\ clips = <<>>

CallTrimScriptToDuration ==
  /\ pc = "text"
  /\ IF TrimScriptToDurationRaises(text, max_duration)
       THEN pc' = "raised" /\ trimmed' = trimmed
       ELSE /\ pc' = "trim_script_to_duration"
            /\ trimmed' = TrimScriptToDuration(text, max_duration)
  /\ UNCHANGED <<text, max_duration, duration, parts, subtitles, previous,
                 loaded, actual_duration, rescales,
                 tts_file, use_stt_for_subtitles, stt, video_duration,
                 clips>>

NextTrim == CallTrimScriptToDuration

SpecTrim == InitTrim /\ [][NextTrim]_vars

\* ------------------------------------ get_tts_with_timestamps and rescale

Init ==
  /\ pc = "get_tts"
  /\ text \in CaptionScripts
  /\ use_stt_for_subtitles \in BOOLEAN
  /\ Idle

\* sentences = self._split_into_sentences(text)
TtsSplit ==
  /\ pc = "get_tts"
  /\ pc' = "generate_tts"
  /\ parts' = SplitIntoSentences(text)
  /\ UNCHANGED <<text, max_duration, duration, trimmed, subtitles, previous,
                 loaded, actual_duration, rescales,
                 tts_file, use_stt_for_subtitles, stt, video_duration,
                 clips>>

\* what generate_tts can return: None, the path of a file that does not
\* exist, the path of a file that exists
TtsFiles == {"none", "missing", "file"}

\* as SynthesisFailed, without the os.path.exists test
SynthesisFailedNoneOnly(file) == file = "none"

\* not tts_file or not os.path.exists(tts_file)
SynthesisFailed(file) == file # "file"

\* tts_file = self.generate_tts(text), and the return of (None, []) when it
\* gave no file
TtsGenerate ==
  /\ pc = "generate_tts"
  /\ tts_file' \in TtsFiles
  /\ pc' = IF SynthesisFailed(tts_file') THEN "failed"
           ELSE IF use_stt_for_subtitles THEN "stt"
           ELSE "estimate"
  /\ UNCHANGED <<text, max_duration, duration, parts, trimmed, subtitles,
                 previous, loaded, actual_duration, rescales,
                 use_stt_for_subtitles, stt, video_duration, clips>>

\* the words of a recognition that heard every word of the script, one
\* word every SttStepMs milliseconds
TimedWords(words) ==
  [i \in 1..Len(words) |->
     [word       |-> words[i],
      start_time |-> (i - 1) * Milli(SttStepMs),
      end_time   |-> i * Milli(SttStepMs)]]

\* the words without the punctuation that ends a sentence
Unpunctuated(words) ==
  [i \in 1..Len(words) |->
     SelectSeq(words[i], LAMBDA c : c \notin SentenceEnd)]

\* what the recognition can give for a script: no result, a result without
\* words, the words of the script, the words without their punctuation
SttResults(script) ==
  {<<>>, <<<<>>>>, <<TimedWords(Words(script))>>,
   <<TimedWords(Unpunctuated(Words(script)))>>}

\* the branch for use_stt_for_subtitles: captions from speech-to-text go on
\* to the rescaler; if the step raises or gives no captions the estimate
\* takes over
TtsStt ==
  /\ pc = "stt"
  /\ \/ /\ stt' = "raised"
        /\ pc' = "estimate"
        /\ subtitles' = subtitles
     \/ \E failed \in BOOLEAN, results \in SttResults(text) :
          LET stt_subtitles == GetSttBasedTimestamps(failed, results, text)
          IN IF SttSucceeded(stt_subtitles)
               THEN /\ stt' = "captions"
                    /\ pc' = "adjust"
                    /\ subtitles' = stt_subtitles
               ELSE /\ stt' = "empty"
                    /\ pc' = "estimate"
                    /\ subtitles' = subtitles
  /\ UNCHANGED <<text, max_duration, duration, parts, trimmed, previous,
                 loaded, actual_duration, rescales, tts_file,
                 use_stt_for_subtitles, video_duration, clips>>

\* subtitles = self._estimate_timestamps(sentences)
TtsEstimate ==
  /\ pc = "estimate"
  /\ pc' = "adjust"
  /\ subtitles' = EstimateTimestamps(parts)
  /\ UNCHANGED <<text, max_duration, duration, parts, trimmed, previous,
                 loaded, actual_duration, rescales,
                 tts_file, use_stt_for_subtitles, stt, video_duration,
                 clips>>

\* one call of _adjust_timestamps_based_on_actual_duration
Adjust(ok, measured) ==
  /\ subtitles' = AdjustTimestamps(subtitles, ok, measured)
  /\ previous' = subtitles
  /\ loaded' = ok
  /\ actual_duration' = measured
  /\ rescales' = rescales + 1

\* subtitles = self._adjust_timestamps_based_on_actual_duration(...)
TtsAdjust ==
  /\ pc = "adjust"
  /\ pc' = "done"
  /\ \/ Adjust(FALSE, 0)
     \/ \E d \in AudioDurations : Adjust(TRUE, d)
  /\ UNCHANGED <<text, max_duration, duration, parts, trimmed,
                 tts_file, use_stt_for_subtitles, stt, video_duration,
                 clips>>

\* a further call of the rescaler on the captions handed out
Rescale ==
  /\ pc = "done"
  /\ rescales < MaxRescales
  /\ pc' = "done"
  /\ \/ Adjust(FALSE, 0)
     \/ \E d \in AudioDurations : Adjust(TRUE, d)
  /\ UNCHANGED <<text, max_duration, duration, parts, trimmed,
                 tts_file, use_stt_for_subtitles, stt, video_duration,
                 clips>>

\* the caption step of create_video, over a video as long as the audio: the
\* captions handed out by get_tts_with_timestamps if there are any, the
\* script itself if there are none
CreateVideo ==
  /\ pc = "done"
  /\ pc' = "create_video"
  /\ video_duration' \in (IF loaded THEN {actual_duration} ELSE AudioDurations)
  /\ \E failing \in RenderFailures(Len(subtitles)) :
       clips' = IF subtitles # <<>>
                  THEN CreateSubtitleClips(subtitles, video_duration', failing)
                  ELSE CreateSubtitleClipsFromText(text, video_duration',
                                                   failing)
  /\ UNCHANGED <<text, max_duration, duration, parts, trimmed, subtitles,
                 previous, loaded, actual_duration, rescales,
                 tts_file, use_stt_for_subtitles, stt>>

Next ==
  \/ TtsSplit
  \/ TtsGenerate
  \/ TtsStt
  \/ TtsEstimate
  \/ TtsAdjust
  \/ Rescale
  \/ CreateVideo

Spec == Init /\ [][Next]_vars

\* --------------------------------------- the core, on degenerate input

\* a syllable, a full stop, a space and a line break
CoreAlphabet == {44032, PERIOD, SP, NL}

\* a long word, the end of a sentence, and a second long word
LongText ==
  Repeat(44050, 2 * MaxRun) \o <<PERIOD, SP>> \o Repeat(97, 2 * MaxRun)

\* nothing, whitespace only, punctuation only, single words, three
\* one-syllable sentences, and the long text
CoreTexts ==
  SeqsUpTo(CoreAlphabet, MaxTextLen)
    \cup {LongText, JoinSpace(<<<<44032, PERIOD>>, <<44032, PERIOD>>,
                                <<44032, PERIOD>>>>)}

\* a negative budget, none, and budgets of whole seconds
CoreDurations == {0 - Centi(100)} \cup MaxDurations

InitCore ==
  /\ pc = "text"
  /\ text \in CoreTexts
  /\ max_duration \in CoreDurations
  /\ duration = 0
  /\ parts = <<>>
  /\ trimmed = <<>>
  /\ subtitles = <<>>
  /\ previous = <<>>
  /\ loaded = FALSE
  /\ actual_duration = 0
  /\ rescales = 0
  /\ tts_file = "none"
  /\ use_stt_for_subtitles = FALSE
  /\ stt = "off"
  /\ video_duration = 0
  /\ clips = <<>>

NextCore ==
  \/ CallAnalyzeSyllables
  \/ CallEstimateSpeechDuration
  \/ CallSplitIntoSentences
  \/ CallSplitIntoClauses
  \/ CallEstimateTimestamps
  \/ CallTrimScriptToDuration

SpecCore == InitCore /\ [][NextCore]_vars

\* -------------------------------------- the coarse mode, on its own

\* the scripts of at most MaxCoarseSentences sentences and a script of one
\* space
CoarseScripts ==
  {JoinSpace(ss) : ss \in SeqsUpTo(ScriptSentences, MaxCoarseSentences)}
    \cup {<<SP>>}

\* audio_clip.duration: videos of whole seconds
VideoDurations == {Centi(100) * k : k \in 0..MaxVideoSeconds}

InitCoarse ==
  /\ pc = "text"
  /\ text \in CoarseScripts
  /\ video_duration \in VideoDurations
  /\ max_duration = 0
  /\ duration = 0
  /\ parts = <<>>
  /\ trimmed = <<>>
  /\ subtitles = <<>>
  /\ previous = <<>>
  /\ loaded = FALSE
  /\ actual_duration = 0
  /\ rescales = 0
  /\ tts_file = "none"
  /\ use_stt_for_subtitles = FALSE
  /\ stt = "off"
  /\ clips = <<>>

CallCreateSubtitleClipsFromText ==
  /\ pc = "text"
  /\ pc' = "create_subtitle_clips_from_text"
  /\ \E failing \in RenderFailures(Len(SplitIntoSentences(text))) :
       clips' = CreateSubtitleClipsFromText(text, video_duration, failing)
  /\ UNCHANGED <<text, max_duration, duration, parts, trimmed, subtitles,
                 previous, loaded, actual_duration, rescales,
                 tts_file, use_stt_for_subtitles, stt, video_duration>>

NextCoarse == CallCreateSubtitleClipsFromText

SpecCoarse == InitCoarse /\ [][NextCoarse]_vars

\* ------------------------------------------- the app's script length gate

\* the scripts of a few sentences and the long runs
GateScripts == CoarseScripts \cup RunTexts

InitGate ==
  /\ pc = "text"
  /\ text \in GateScripts
  /\ max_duration \in MaxDurations
  /\ duration = 0
  /\ parts = <<>>
  /\ trimmed = <<>>
  /\ subtitles = <<>>
  /\ previous = <<>>
  /\ loaded = FALSE
  /\ actual_duration = 0
  /\ rescales = 0
  /\ tts_file = "none"
  /\ use_stt_for_subtitles = FALSE
  /\ stt = "off"
  /\ video_duration = 0
  /\ clips = <<>>

\* estimated_duration = estimate_speech_duration(original_script), and the
\* call of trim_script_to_duration if it is above the length of the video;
\* trimmed is the script that goes on to the synthesis
LengthGate ==
  /\ pc = "text"
  /\ IF EstimateSpeechDurationRaises(text)
       THEN pc' = "raised" /\ UNCHANGED <<duration, trimmed>>
       ELSE /\ duration' = EstimateSpeechDuration(text)
            /\ IF duration' > max_duration
                 THEN IF TrimScriptToDurationRaises(text, max_duration)
                        THEN pc' = "raised" /\ trimmed' = trimmed
                        ELSE /\ pc' = "too_long"
                             /\ trimmed' = TrimScriptToDuration(text,
                                                                max_duration)
                 ELSE pc' = "short_enough" /\ trimmed' = text
  /\ UNCHANGED <<text, max_duration, parts, subtitles, previous, loaded,
                 actual_duration, rescales, tts_file, use_stt_for_subtitles,
                 stt, video_duration, clips>>

NextGate == LengthGate

SpecGate == InitGate /\ [][NextGate]_vars

\* ----------------------------------------------------------------- claims

LastEnd(caps) == caps[Len(caps)].end_time

Contiguous(caps) ==
  /\ caps # <<>> => caps[1].start_time = 0
  /\ \A i \in 1..(Len(caps) - 1) : caps[i].end_time = caps[i + 1].start_time

\* C1: the caption list the timeline builder produces is contiguous: the
\* first caption starts at 0 and every caption ends exactly where the next
\* one starts.
C1_TimelineContiguous ==
  pc = "estimate_timestamps" => Contiguous(subtitles)

\* a timeline of at least three captions, one sentence giving several
C1_Witness ==
  /\ pc = "estimate_timestamps"
  /\ Len(subtitles) >= 3
  /\ Len(subtitles) > Len(parts)

\* C2: every caption has end_time > start_time >= 0, right after the
\* timeline builder made it and after any number of rescale calls with any
\* measured duration >= 0, a measured duration of 0 included.
C2_CaptionsWellFormed ==
  \A i \in 1..Len(subtitles) :
    /\ subtitles[i].start_time >= 0
    /\ subtitles[i].end_time > subtitles[i].start_time

\* the product a * b for 0 <= a, b < 2^27, as three digits to the base 2^15
WideProduct(a, b) ==
  LET B   == 2 ^ 15
      lo  == (a % B) * (b % B)
      mid == (a \div B) * (b % B) + (a % B) * (b \div B) + lo \div B
      hi  == (a \div B) * (b \div B) + mid \div B
  IN <<hi, mid % B, lo % B>>

WideLess(x, y) ==
  \/ x[1] < y[1]
  \/ x[1] = y[1] /\ x[2] < y[2]
  \/ x[1] = y[1] /\ x[2] = y[2] /\ x[3] < y[3]

\* new is old * (actual / estimated), rounded down to a whole tick:
\* new * estimated <= old * actual < (new + 1) * estimated
ScaledBy(old, new, actual, estimated) ==
  /\ ~WideLess(WideProduct(old, actual), WideProduct(new, estimated))
  /\ WideLess(WideProduct(old, actual), WideProduct(new + 1, estimated))

\* every caption of after is the caption of before with both times scaled
AllScaled(before, after, actual, estimated) ==
  /\ Len(after) = Len(before)
  /\ \A i \in 1..Len(before) :
       /\ after[i].text = before[i].text
       /\ ScaledBy(before[i].start_time, after[i].start_time, actual,
                   estimated)
       /\ ScaledBy(before[i].end_time, after[i].end_time, actual, estimated)

\* a rescale call that measured the audio, on a non-empty caption list with
\* a positive estimated duration
RescaleCalled ==
  /\ pc = "done"
  /\ loaded
  /\ previous # <<>>
  /\ LastEnd(previous) > 0

\* C3 as stated: after rescale(captions, D) the last caption's end_time is D
\* and every time has been multiplied by D / old last end_time.
C3_AsStated ==
  RescaleCalled =>
    /\ LastEnd(subtitles) = actual_duration
    /\ AllScaled(previous, subtitles, actual_duration, LastEnd(previous))

\* C3: after rescale(captions, D) on a non-empty caption list of estimated
\* duration E > 0: if |D - E| >= 0.5 s the last caption's end_time is D and
\* every start_time and end_time has been multiplied by D / E; if
\* |D - E| < 0.5 s the list is as it was.
C3_RescaleLaw ==
  RescaleCalled =>
    IF CloseEnough(actual_duration, LastEnd(previous))
      THEN subtitles = previous
      ELSE /\ LastEnd(subtitles) = actual_duration
           /\ AllScaled(previous, subtitles, actual_duration,
                        LastEnd(previous))

\* a list of two captions or more stretched to a longer measured duration
C3_Witness ==
  /\ RescaleCalled
  /\ ~CloseEnough(actual_duration, LastEnd(previous))
  /\ Len(subtitles) >= 2
  /\ actual_duration > LastEnd(previous)
  /\ subtitles[1].end_time > previous[1].end_time

\* the trimmer has returned
Trimmed == pc = "trim_script_to_duration"

\* C4: for a script of at least 3 sentences whose first and last sentence
\* together take at most 0.95 * max_duration, the trimmed script's estimated
\* total duration is at most max_duration, also when sentences repeat.
C4_TrimFitsBudget ==
  LET ins == SplitIntoSentences(text)
  IN (/\ Trimmed
      /\ Len(ins) >= 3
      /\ AnalyzeSyllables(ins[1]) + AnalyzeSyllables(ins[Len(ins)])
           <= TargetDuration(max_duration))
     => EstimateTotalDuration(trimmed) <= max_duration

RECURSIVE IsSubsequence(_, _)
IsSubsequence(xs, ys) ==
  IF xs = <<>> THEN TRUE
  ELSE IF ys = <<>> THEN FALSE
  ELSE IF xs[1] = ys[1] THEN IsSubsequence(Tail(xs), Tail(ys))
  ELSE IsSubsequence(xs, Tail(ys))

\* C6: the sentences of the trimmer's output are a subsequence of the
\* script's sentences: each is a sentence of the script, and they stand in
\* the script's order.
C6_TrimIsSubsequence ==
  Trimmed =>
    IsSubsequence(SplitIntoSentences(trimmed), SplitIntoSentences(text))

\* a script that lost a sentence and kept two middle sentences of which the
\* later one is the denser
C6_Witness ==
  LET ins  == SplitIntoSentences(text)
      outs == SplitIntoSentences(trimmed)
      sd   == SentenceDurations(outs)
  IN /\ Trimmed
     /\ Len(outs) < Len(ins)
     /\ Len(outs) >= 4
     /\ DenserThan(sd[3], sd[2])

CaptionTexts(caps) == [i \in 1..Len(caps) |-> caps[i].text]

\* C7: the texts of the captions built from a script, put together and with
\* all whitespace removed, are the script with all whitespace removed.
C7_NoTextLost ==
  pc = "estimate_timestamps" =>
    Squeeze(Concat(CaptionTexts(subtitles))) = Squeeze(text)

\* a sentence that the particle splitter cut and that gave several captions
C7_Witness ==
  /\ pc = "estimate_timestamps"
  /\ \E i \in 1..Len(parts) :
       /\ Len(SplitIntoClauses(parts[i])) >= 2
       /\ Len(parts[i]) > 20
       /\ CountIn(parts[i], PrimaryDelimiters) = 0

\* C8: for every non-empty text, whitespace-only text included, each of
\* _split_into_sentences, _split_into_clauses and _split_by_korean_particles
\* returns a non-empty sequence of non-empty strings.
C8_SegmentersFailOpen ==
  (/\ pc \in {"split_into_sentences", "split_into_clauses",
              "split_by_korean_particles"}
   /\ text # <<>>)
  => /\ parts # <<>>
     /\ \A i \in 1..Len(parts) : parts[i] # <<>>

\* C9: for text that is not empty after trimming, _analyze_syllables
\* returns at least 0.7 s, and every sentence adds at least 0.7 s to what
\* app.estimate_speech_duration returns.
C9_MinimumDuration ==
  ~AllSpace(text) =>
    /\ pc = "analyze_syllables" => duration >= Centi(70)
    /\ pc = "estimate_speech_duration" =>
         /\ Len(SplitIntoSentences(text)) >= 1
         /\ duration >= Centi(70) * Len(SplitIntoSentences(text))

\* a text of two characters or more that the floor lifts to 0.7 s
C9_Witness ==
  /\ ~AllSpace(text)
  /\ pc = "analyze_syllables"
  /\ duration = Centi(70)
  /\ Len(RemoveSpaces(text)) >= 2

C11_AppendNeverLowers ==
  [][pc' \in {"analyze_syllables_appended",
              "estimate_speech_duration_appended"}
       => duration' >= duration]_vars

\* C12: for a text of at most 15 non-space characters, _analyze_syllables
\* of the text written twice is at least _analyze_syllables of the text.
C12_DoublingNeverLowers ==
  [][(pc' = "analyze_syllables_doubled" /\ Len(RemoveSpaces(text)) <= 15)
       => duration' >= duration]_vars

\* a text of 15 non-space characters estimated above 3.0 s whose double is
\* cut by the ceiling
C12_Witness ==
  LET half == SubSeq(text, 1, Len(text) \div 2)
  IN /\ pc = "analyze_syllables_doubled"
     /\ Len(RemoveSpaces(half)) = 15
     /\ AnalyzeSyllables(half) > Centi(300)
     /\ duration < 2 * AnalyzeSyllables(half)
     /\ duration = Centi(300) + 15 * Centi(10)

\* the speed-up as the specification words it: the factor of the highest
\* tier the length reaches, and only that one
TieredSpeedUp(n, d) ==
  IF n > 30 THEN ScaleBy(d, 75, 100)
  ELSE IF n > 20 THEN ScaleBy(d, 80, 100)
  ELSE IF n > 10 THEN ScaleBy(d, 85, 100)
  ELSE d

\* C19: the estimate is the one computed with x0.85 for 10 < n <= 20, x0.8
\* for 20 < n <= 30 and x0.75 for n > 30, in _analyze_syllables and, for a
\* text of one sentence, in app.estimate_speech_duration.
C19_HighestTierApplies ==
  LET tws == RemoveSpaces(text)
      n   == Len(tws)
      ss  == SplitIntoSentences(text)
      s   == ss[1]
      sn  == Len(RemoveSpaces(s))
  IN /\ (pc = "analyze_syllables" /\ ~AllSpace(text)) =>
          duration =
            MinimumDuration(ApplyCeiling(n, TieredSpeedUp(n,
              ApplySpaceFactor(text,
                WeightedDuration(text, n, ComplexCharCount(tws))))))
     /\ (pc = "estimate_speech_duration" /\ Len(ss) = 1) =>
          duration =
            MinimumDuration(TieredSpeedUp(sn,
              ApplySpaceFactor(s,
                WeightedDuration(s, sn,
                                 AppComplexCharCount(RemoveSpaces(s))))))

\* the duration _analyze_syllables has reached when it comes to the ceiling
DurationBeforeCeiling(t) ==
  LET tws == RemoveSpaces(t)
      n   == Len(tws)
  IN ApplySpeedUp(n, ApplySpaceFactor(t,
       WeightedDuration(t, n, ComplexCharCount(tws))))

\* C20: for a clause of n > 15 non-space characters _analyze_syllables
\* returns at most 3.0 + (n - 15) * 0.1 s, and a duration that is at most
\* 3.0 s before the ceiling is returned as it is (lifted to the 0.7 s floor
\* only).
C20_CeilingBoundsLongClauses ==
  LET n == Len(RemoveSpaces(text))
  IN (pc = "analyze_syllables" /\ ~AllSpace(text)) =>
       /\ n > 15 => duration <= Centi(300) + (n - 15) * Centi(10)
       /\ DurationBeforeCeiling(text) <= Centi(300) =>
            duration = Max(Centi(70), DurationBeforeCeiling(text))

\* a clause of more than 15 characters that the ceiling cuts
C20_Witness ==
  LET n == Len(RemoveSpaces(text))
  IN /\ pc = "analyze_syllables"
     /\ n > 15
     /\ DurationBeforeCeiling(text) > Centi(300) + (n - 15) * Centi(10)
     /\ duration = Centi(300) + (n - 15) * Centi(10)

\* C13: a rescale call that measures the same duration as the rescale call
\* before it leaves every caption as it is.
C13_RescaleIdempotent ==
  [][(/\ pc = "done" /\ pc' = "done"
      /\ loaded /\ loaded'
      /\ actual_duration' = actual_duration)
       => subtitles' = subtitles]_vars

\* captions that an earlier call stretched to the measured duration and that
\* the last call, measuring that duration again, left as they were
C13_Witness ==
  /\ pc = "done"
  /\ rescales >= 2
  /\ loaded
  /\ Len(subtitles) >= 2
  /\ subtitles = previous
  /\ LastEnd(subtitles) = actual_duration
  /\ LastEnd(EstimateTimestamps(parts)) # actual_duration

\* a rescale call that measured the audio, on a non-empty caption list
RescaleMeasured ==
  /\ pc = "done"
  /\ loaded
  /\ previous # <<>>

\* C14 as stated: if the measured duration differs from the last end_time by
\* less than 0.5 s the captions are unchanged, otherwise they are rescaled.
C14_AsStated ==
  RescaleMeasured =>
    IF Abs(actual_duration - LastEnd(previous)) < Centi(50)
      THEN subtitles = previous
      ELSE /\ subtitles # previous
           /\ AllScaled(previous, subtitles, actual_duration,
                        LastEnd(previous))

\* C14: if the measured duration differs from the last end_time by less than
\* 0.5 s the captions are unchanged; if it differs by 0.5 s or more and the
\* last end_time is positive they are rescaled; if the last end_time is 0
\* they are unchanged.
C14_ToleranceFrame ==
  RescaleMeasured =>
    IF \/ Abs(actual_duration - LastEnd(previous)) < Centi(50)
       \/ LastEnd(previous) = 0
      THEN subtitles = previous
      ELSE /\ subtitles # previous
           /\ AllScaled(previous, subtitles, actual_duration,
                        LastEnd(previous))

\* two captions or more, and a measured duration that is not the estimated
\* one but within 0.5 s of it
C14_Witness ==
  /\ RescaleMeasured
  /\ Len(subtitles) >= 2
  /\ actual_duration # LastEnd(previous)
  /\ Abs(actual_duration - LastEnd(previous)) < Centi(50)
  /\ subtitles = previous

\* C15: a rescale call on an empty caption list, or on a list whose last
\* end_time is 0, returns the captions as they are, whatever it measures.
C15_ZeroEstimateUnchanged ==
  (pc = "done" /\ (previous = <<>> \/ LastEnd(previous) = 0))
    => subtitles = previous

\* a non-empty list with a last end_time of 0 and a measured duration of
\* 0.5 s or more: the division by zero
C15_Witness ==
  /\ pc = "done"
  /\ loaded
  /\ previous # <<>>
  /\ LastEnd(previous) = 0
  /\ actual_duration >= Centi(50)
  /\ subtitles = previous

\* C16: a script whose estimated total duration is at most max_duration is
\* returned by trim_script_to_duration character for character.
C16_ShortScriptUnchanged ==
  (Trimmed /\ EstimateTotalDuration(text) <= max_duration)
    => trimmed = text

\* a script within the budget that joining its sentences with single spaces
\* would not give back
C16_Witness ==
  /\ Trimmed
  /\ EstimateTotalDuration(text) <= max_duration
  /\ Len(SplitIntoSentences(text)) >= 2
  /\ JoinSpace(SplitIntoSentences(text)) # text
  /\ trimmed = text

\* C17: none of the estimators, the sentence and the clause segmenter, the
\* timeline builder and trim_script_to_duration raises, for empty,
\* whitespace-only, punctuation-only, one-word and long text and for
\* negative, zero and positive max_duration.
C17_CoreNeverRaises == pc # "raised"

\* the trimmer past its early return with a script that has no sentence
C17_Witness ==
  /\ pc = "trim_script_to_duration"
  /\ text # <<>>
  /\ AllSpace(text)
  /\ max_duration < 0
  /\ trimmed = <<>>

\* C18: in get_tts_with_timestamps the timeline builder and the rescaler run
\* only when synthesis has produced a file that exists, the builder before
\* the rescaler; when synthesis gives no file the operation ends with no
\* captions and neither of the two has run.
C18_RescaleAfterSynthesis ==
  [][/\ pc' = "estimate" =>
          pc \in {"generate_tts", "stt"} /\ tts_file' = "file"
     /\ pc' = "adjust" => pc \in {"estimate", "stt"} /\ tts_file = "file"
     /\ rescales' # rescales =>
          pc \in {"adjust", "done"} /\ tts_file = "file"
     /\ pc' = "failed" =>
          /\ pc \in {"generate_tts", "failed"}
          /\ tts_file' # "file"
          /\ subtitles' = <<>>
          /\ rescales' = 0
     /\ pc = "failed" => pc' = "failed"]_vars

\* captions built and then rescaled against the audio of an existing file
C18_Witness ==
  /\ pc = "done"
  /\ tts_file = "file"
  /\ rescales = 1
  /\ loaded
  /\ subtitles # <<>>
  /\ subtitles # EstimateTimestamps(parts)

\* ------------------------------------------------- the greedy middle pass

\* the middle sentences with their places in the script:
\* (sentence, duration, index)
IndexedMiddle(sd) ==
  [k \in 1..(IF Len(sd) > 2 THEN Len(sd) - 2 ELSE 0) |->
     <<sd[k + 1][1], sd[k + 1][2], k + 1>>]

\* one pass over the ranked middle sentences: the places of those kept
RECURSIVE GreedyPass(_, _, _)
GreedyPass(ranked, total, target) ==
  IF ranked = <<>> THEN {}
  ELSE IF total + ranked[1][2] <= target
    THEN {ranked[1][3]}
           \cup GreedyPass(Tail(ranked), total + ranked[1][2], target)
    ELSE GreedyPass(Tail(ranked), total, target)

\* the places of the script the pass keeps: the first, the last, and the
\* middle places it chose
KeptPlaces(sd, target) ==
  LET n == Len(sd)
  IN {i \in {1, n} : i >= 1}
       \cup GreedyPass(SortByDensity(IndexedMiddle(sd), <<>>),
                       sd[1][2] + (IF n > 1 THEN sd[n][2] ELSE 0), target)

\* the script was over its budget and the trimmer has returned
TrimNeeded == Trimmed /\ EstimateTotalDuration(text) > max_duration

\* C21: when trimming is needed, the output holds the first sentence, the
\* last sentence and exactly the middle sentences one greedy pass in
\* descending density keeps (first + last + kept so far + own duration
\* <= 0.95 * max_duration); a sentence the pass skipped is not in the output.
C21_GreedyMiddleExact ==
  TrimNeeded =>
    LET ins  == SplitIntoSentences(text)
        kept == KeptPlaces(SentenceDurations(ins), TargetDuration(max_duration))
    IN SplitIntoSentences(trimmed)
         = [k \in 1..Cardinality(kept) |->
              ins[CHOOSE i \in kept :
                    Cardinality({j \in kept : j < i}) = k - 1]]

\* ------------------------------------------- the Korean-aware splitter

\* the word endings after which a split is made once 2 words have
\* accumulated: case, topic, object and locative particles, the connective
\* endings 고, 며, 서, 자, 면, 니까, 지만 and the quotative endings 라고, 하고
SplitEndings ==
  SubjectParticles \cup TopicParticles \cup ObjectParticles
    \cup LocationParticles
    \cup {<<44256>>, <<47728>>, <<49436>>, <<51088>>, <<47732>>,
          <<45768, 44620>>, <<51648, 47564>>}
    \cup {<<46972, 44256>>, <<54616, 44256>>}

\* _split_by_korean_particles has returned for a text of more than 3 words
ParticlesSplit ==
  pc = "split_by_korean_particles" /\ Len(Words(text)) > 3

\* C22: for a text of more than 3 words, _split_by_korean_particles splits
\* after a non-final word once 2 words have accumulated whenever that word
\* ends in a particle, a connective ending or a quotative ending, and
\* unconditionally once 3 words have accumulated: no fragment has more than
\* 3 words, and a fragment of 3 words has no such ending on its second word.
C22_SplitsAfterEndings ==
  ParticlesSplit =>
    /\ JoinSpace(parts) = JoinSpace(Words(text))
    /\ \A k \in 1..Len(parts) :
         LET ws == Words(parts[k])
         IN /\ Len(ws) <= 3
            /\ Len(ws) = 3 => ~EndsWithAny(ws[2], SplitEndings)
            /\ k < Len(parts) =>
                 \/ Len(ws) = 3
                 \/ Len(ws) = 2 /\ EndsWithAny(ws[2], SplitEndings)

\* ------------------------------------------------ the length of a clause

\* C23: for every sentence longer than 10 characters, every fragment
\* returned by _split_into_clauses is at most 25 characters long.
C23_ClausesAtMost25 ==
  (pc = "split_into_clauses" /\ Len(text) > 10) =>
    \A i \in 1..Len(parts) : Len(parts[i]) <= 25

\* --------------------------------------------- the final recombination

\* _split_into_clauses has returned for a sentence it does not return as it
\* is
ClausesRecombined == pc = "split_into_clauses" /\ Len(text) > 10

\* C24: the final pass of _split_into_clauses merges adjacent fragments as
\* long as the merged clause is at most 25 characters long: two adjacent
\* output clauses joined by one space are longer than 25 characters, and the
\* clauses keep the left-to-right order of the sentence.
C24_RecombineMaximal ==
  ClausesRecombined =>
    /\ \A i \in 1..(Len(parts) - 1) :
         Len(parts[i]) + 1 + Len(parts[i + 1]) > 25
    /\ Squeeze(Concat(parts)) = Squeeze(text)

\* a sentence of several clauses, one of them merged from several fragments
C24_Witness ==
  /\ ClausesRecombined
  /\ Len(parts) >= 2
  /\ Len(TempClauses(ReSplitPrimary(text, 1, 1))) > Len(parts)

\* --------------------------------------------------- the coarse mode

\* C25: in the coarse mode every sentence is displayed for an interval of
\* at least 1.5 and at most 7.0 seconds, whatever its proportional share,
\* and the intervals are chained: the first starts at 0 and each next one
\* starts where the one before ended.
C25_CoarseIntervalsClamped ==
  pc = "create_subtitle_clips_from_text" =>
    /\ \A i \in 1..Len(clips) :
         /\ clips[i].end_time - clips[i].start_time >= Centi(150)
         /\ clips[i].end_time - clips[i].start_time <= Centi(700)
    /\ Contiguous(clips)

\* ------------------------------------------- every caption is rendered

\* create_video has laid the captions over a video as long as the audio the
\* rescaler measured
CaptionsLaidOver ==
  pc = "create_video" /\ loaded /\ video_duration = actual_duration

\* C26: after the rescale against the measured audio duration D every
\* caption ends at or before D, so that create_subtitle_clips called with
\* video_duration = D skips no caption for ending after the video, also
\* when the estimate exceeds D by less than 0.5 s and the rescale changes
\* nothing.
C26_EveryCaptionRendered ==
  CaptionsLaidOver =>
    \A i \in 1..Len(subtitles) : subtitles[i].end_time <= video_duration

\* ------------------------------------------- the two estimators at the gate

\* C27: whenever the app judges a script too long
\* (estimate_speech_duration(script) > max_duration) and calls the trimmer,
\* _estimate_total_duration(script) > max_duration as well, so that the
\* trimmer does not take its return-unchanged path.
C27_EstimatorsAgreeAtGate ==
  pc = "too_long" => EstimateTotalDuration(text) > max_duration

\* ------------------------------------------ the shape of the timeline

\* start_time <= end_time in every caption
Ordered(caps) == \A i \in 1..Len(caps) : caps[i].start_time <= caps[i].end_time

\* C28: a rescale call that measures a positive duration on a caption list
\* that is contiguous and ordered (first start_time 0, each end_time equal
\* to the next start_time) returns a list that is contiguous and ordered
\* too, with the same number of captions and the same texts in the same
\* order.
C28_RescaleKeepsShape ==
  (/\ pc = "done"
   /\ loaded
   /\ actual_duration > 0
   /\ Contiguous(previous)
   /\ Ordered(previous))
  => /\ Contiguous(subtitles)
     /\ Ordered(subtitles)
     /\ Len(subtitles) = Len(previous)
     /\ CaptionTexts(subtitles) = CaptionTexts(previous)

\* a contiguous list of several captions that the call scaled
C28_Witness ==
  /\ pc = "done"
  /\ loaded
  /\ actual_duration > 0
  /\ Len(previous) >= 2
  /\ Contiguous(previous)
  /\ Ordered(previous)
  /\ LastEnd(subtitles) # LastEnd(previous)
  /\ subtitles[2].start_time # previous[2].start_time

\* ------------------------------------------- a failed measurement

\* every caption of after is the caption of before with both times scaled
\* to the measured duration
WhollyScaled(before, after, actual) ==
  /\ before # <<>>
  /\ LastEnd(before) > 0
  /\ after = [i \in 1..Len(before) |->
               [text       |-> before[i].text,
                start_time |-> MulDiv(before[i].start_time, actual,
                                      LastEnd(before)),
                end_time   |-> MulDiv(before[i].end_time, actual,
                                      LastEnd(before))]]

\* C29: a rescale call that cannot load the audio returns the captions with
\* every start_time and end_time unchanged; and whatever a rescale call
\* does, the list it returns is either the list as it was or the list with
\* every caption scaled, never some captions scaled and others not.
C29_FailedLoadUnchanged ==
  pc = "done" =>
    /\ ~loaded => subtitles = previous
    /\ \/ subtitles = previous
       \/ loaded /\ WhollyScaled(previous, subtitles, actual_duration)

\* a call that could not load the audio of a list of several captions whose
\* estimate is far from any duration that could have been measured
C29_Witness ==
  /\ pc = "done"
  /\ ~loaded
  /\ Len(previous) >= 2
  /\ LastEnd(previous) > Centi(100)
  /\ subtitles = previous

\* ------------------------------------------ the fallback to the estimate

\* C30: with captions from speech-to-text enabled, whenever that step raises
\* or gives no captions get_tts_with_timestamps goes on to the estimate-based
\* timeline builder; on every path on which synthesis succeeded the captions
\* are handed out after exactly one pass through the rescaler, and they are
\* not empty if the script has a sentence.
C30_FallbackToEstimate ==
  [][/\ (pc = "stt" /\ stt' \in {"raised", "empty"}) => pc' = "estimate"
     /\ (pc = "stt" /\ pc' # "estimate") =>
          stt' = "captions" /\ subtitles' # <<>> /\ pc' = "adjust"
     /\ pc = "estimate" =>
          /\ pc' = "adjust"
          /\ subtitles' = EstimateTimestamps(SplitIntoSentences(text))
     /\ (pc' = "done" /\ pc # "done") =>
          /\ pc = "adjust"
          /\ rescales = 0
          /\ rescales' = 1
          /\ previous' = subtitles
     /\ (pc' = "done" /\ SplitIntoSentences(text) # <<>>) =>
          subtitles' # <<>>]_vars

\* captions handed out after the speech-to-text step gave none: built by the
\* estimate and rescaled once
C30_Witness ==
  /\ pc = "done"
  /\ use_stt_for_subtitles
  /\ stt = "empty"
  /\ rescales = 1
  /\ loaded
  /\ subtitles # <<>>
  /\ subtitles # previous
  /\ previous = EstimateTimestamps(SplitIntoSentences(text))

====
